---- MODULE Spec2Model ----
(***************************************************************************)
(* SchemaService of vscode-cosmosdb (src/unnamed/part_001): registration   *)
(* of per-collection query schemas, resolution of a schema URI by sampling *)
(* a cursor, and the folding of the sampled documents into a JSON schema.  *)
(* The mongo commands of registerMongoCommands (src/unnamed/part_000):     *)
(* connectMongoDB, deleteMongoDB, the persisted-database load task and the *)
(* execute commands that await it.                                         *)
(*                                                                         *)
(* Strings whose characters the code inspects (URIs, collection names) are *)
(* sequences of one-character strings; field names and schema keys are     *)
(* TLC strings, concatenated with \o as the template literal does.         *)
(***************************************************************************)
EXTENDS Integers, Sequences, FiniteSets, TLC

VARIABLES
    db,            \* SchemaService._db: NoDb or a data-source handle
    reg,           \* the most recent registerSchemas call and its returned promise
    uri,           \* argument of the current resolveSchema call
    ret,           \* what resolveSchema returned: "none", "undefined", "promise", "threw"
    cursor,        \* the cursor opened by _resolveQueryCollectionSchema
    pending,       \* outstanding cursor request: "none", "hasNext", "next"
                   \* ("callback" in SpecFold: the completion callback is about to run)
    result,        \* readNext's accumulated result array
    promise,       \* state of the returned promise: "none", "pending", "resolved", "rejected"
    value,         \* what the promise resolved with (NoSchema while it has not)
    stats,         \* observation counters of the current resolution
    connectedMongoDB,          \* ext.connectedMongoDB: NoNode or the fullId of a database node
    globalState,               \* ext.context.globalState value under connectedMongoKey
    languageClient,            \* database the language client is connected to, or NoNode
    codeLensProvider,          \* what the code lens provider was last told: "initializing",
                               \* "undefined" or a database
    deleted,                   \* databases whose deleteTreeItem has succeeded
    commands,                  \* invocations of connectMongoDB / deleteMongoDB and where each is suspended
    loadPersistedMongoDBTask,  \* the promise of loadPersistedMongoDB and the position of its body
    executions                 \* invocations of executeMongoCommand / executeAllMongoCommands

schemaVars == <<db, reg, uri, ret, cursor, pending, result, promise, value, stats>>
commandVars == <<connectedMongoDB, globalState, languageClient, codeLensProvider, deleted,
                 commands, loadPersistedMongoDBTask, executions>>
vars == <<db, reg, uri, ret, cursor, pending, result, promise, value, stats,
          connectedMongoDB, globalState, languageClient, codeLensProvider, deleted,
          commands, loadPersistedMongoDBTask, executions>>

-----------------------------------------------------------------------------
(* Bounds of the model *)

\* longest sample folded in SpecFold
MaxSample == 2
\* cursors hold up to BatchSize + ExtraDocs documents
ExtraDocs == 2
\* readNext([], cursor, 10, ...)
BatchSize == 10
\* user invocations of cosmosDB.connectMongoDB / cosmosDB.deleteMongoDB in one behaviour
MaxCommands == 1

-----------------------------------------------------------------------------
(* JavaScript values: documents, objects, arrays, scalars *)

Num(n) == [kind |-> "number", v |-> n, items |-> <<>>]
Str == [kind |-> "string", v |-> 0, items |-> <<>>]
Null == [kind |-> "null", v |-> 0, items |-> <<>>]
\* an object is its fields in key order (Object.keys order)
Obj(fields) == [kind |-> "object", v |-> 0, items |-> fields]
Arr(elems) == [kind |-> "array", v |-> 0, items |-> elems]
F(name, val) == [name |-> name, value |-> val]

\* Array.isArray(x)
isArray(x) == x.kind = "array"

\* typeof x
typeof(x) ==
    CASE x.kind = "number" -> "number"
      [] x.kind = "string" -> "string"
      [] x.kind = "boolean" -> "boolean"
      [] x.kind = "null" -> "object"
      [] x.kind = "object" -> "object"
      [] x.kind = "array" -> "object"

\* Array.isArray(x) ? 'array' : typeof x
TypeOf(x) == IF isArray(x) THEN "array" ELSE typeof(x)

\* document[property]
Get(document, property) ==
    LET i == CHOOSE j \in 1..Len(document.items) : document.items[j].name = property
    IN  document.items[i].value

\* the `parent` argument: null at the root, a string below it
NullParent == [isNull |-> TRUE, str |-> ""]
Parent(s) == [isNull |-> FALSE, str |-> s]

\* JavaScript truthiness of `parent`: null and '' are falsy
Truthy(parent) == ~parent.isNull /\ parent.str # ""

-----------------------------------------------------------------------------
(* JSON schema nodes *)

Single(t) == [list |-> FALSE, of |-> <<t>>]
List(ts) == [list |-> TRUE, of |-> ts]

NoProps == [k \in {} |-> 0]
NoRef == <<>>

Node(type) == [type |-> type, properties |-> NoProps, notProperties |-> NoProps, ref |-> NoRef]

\* obj[key] = val
Put(f, key, val) == [k \in DOMAIN f \cup {key} |-> IF k = key THEN val ELSE f[k]]

ComparisonOps == {"$eq", "$gt", "$gte", "$lt", "$lte", "$ne"}
CommonOps ==
    ComparisonOps \cup
    {"$in", "$nin", "$exists", "$type", "$mod", "$regex",
     "$geoWithin", "$geoIntersects", "$near", "$nearSphere",
     "$bitsAllSet", "$bitsAnySet", "$bitsAllClear", "$bitsAnyClear"}
ArrayOps == {"$all", "$size"}

\* the `type` each operator's schema declares
OpType(op, type) ==
    CASE op \in ComparisonOps -> type
      [] op \in {"$in", "$nin", "$mod", "$all"} -> "array"
      [] op \in {"$bitsAllSet", "$bitsAnySet", "$bitsAllClear", "$bitsAnyClear"} -> "array"
      [] op \in {"$exists"} -> "boolean"
      [] op \in {"$type", "$regex"} -> "string"
      [] op \in {"$size"} -> "number"
      [] op \in {"$geoWithin", "$geoIntersects", "$near", "$nearSphere"} -> "object"

\* expressionSchema.properties as built for `type`
expressionSchemaUngated(type) ==
    [op \in CommonOps \cup ArrayOps |-> OpType(op, type)]
expressionSchema(type) ==
    [op \in CommonOps \cup (IF type = "array" THEN ArrayOps ELSE {}) |-> OpType(op, type)]

setOperatorProperties(type, schema) ==
    LET expr == expressionSchema(type)
    IN  [schema EXCEPT
            !.properties = Put(Put(expr, "$not", "object"), "$elemMatch", "object"),
            !.notProperties = expr]

\* propertySchema = { type: [type, 'object'] }
propertyTypeBare(type) == List(<<type>>)
propertyType(type) == List(<<type, "object">>)

setGlobalOperatorProperties(schema) ==
    LET text == [Node(Single("object")) EXCEPT
                    !.properties = [k \in {"$search", "$language", "$caseSensitive",
                                           "$diacriticSensitive"} |->
                                       IF k \in {"$search", "$language"} THEN "string"
                                       ELSE "boolean"]]
    IN  [schema EXCEPT !.properties =
            Put(Put(Put(@, "$text", text),
                    "$where", Node(Single("string"))),
                "$comment", Node(Single("string")))]

setLogicalOperatorProperties(schema, schemaUri) ==
    LET clause == [Node(Single("array")) EXCEPT !.ref = schemaUri]
    IN  [schema EXCEPT !.properties =
            Put(Put(Put(@, "$or", clause), "$and", clause), "$nor", clause)]

-----------------------------------------------------------------------------
(* Schema folding.  The accumulator pairs the schema being built with a    *)
(* flag recording that a TypeError was thrown (Object.keys(null)); once    *)
(* thrown, the exception unwinds every enclosing loop and call.            *)

RECURSIVE setSchemaForDocument(_, _, _)
RECURSIVE setSchemaForDocumentProperty(_, _, _, _)
RECURSIVE forEachKey(_, _, _, _)
RECURSIVE forEachElement(_, _, _, _)

\* const scopedProperty = parent ? `${parent}.${property}` : property
scopedPropertyOf(parent, property) ==
    IF Truthy(parent) THEN parent.str \o "." \o property ELSE property

\* !parent && ['_id'].indexOf(property) !== -1
skipsProperty(parent, property) == ~Truthy(parent) /\ property = "_id"

\* schema.properties[scopedProperty] = propertySchema
writeProperty(schema, scopedProperty, propertySchema) ==
    [schema EXCEPT !.properties = Put(@, scopedProperty, propertySchema)]

\* for (const property of Object.keys(document)) { ... }, from the i-th key on
forEachKey(parent, document, i, acc) ==
    IF acc.threw \/ i > Len(document.items) THEN acc
    ELSE LET property == document.items[i].name
         IN  IF skipsProperty(parent, property)
             THEN forEachKey(parent, document, i + 1, acc)
             ELSE forEachKey(parent, document, i + 1,
                             setSchemaForDocumentProperty(parent, property, document, acc))

\* for (const v of value) { this.setSchemaForDocument(scopedProperty, v, schema) }
forEachElement(scopedProperty, val, i, acc) ==
    IF acc.threw \/ i > Len(val.items) THEN acc
    ELSE forEachElement(scopedProperty, val, i + 1,
                        setSchemaForDocument(Parent(scopedProperty), val.items[i], acc))

setSchemaForDocument(parent, document, acc) ==
    IF acc.threw THEN acc
    ELSE IF TypeOf(document) = "object"
         THEN IF document.kind = "null"
              THEN [acc EXCEPT !.threw = TRUE]   \* Object.keys(null): TypeError
              ELSE forEachKey(parent, document, 1, acc)
         ELSE acc

setSchemaForDocumentProperty(parent, property, document, acc) ==
    LET scopedProperty == scopedPropertyOf(parent, property)
        val == Get(document, property)
        type == TypeOf(val)
        propertySchema == setOperatorProperties(type, Node(propertyType(type)))
        acc1 == [acc EXCEPT !.schema = writeProperty(@, scopedProperty, propertySchema)]
    IN  IF type = "object"
        THEN setSchemaForDocument(Parent(scopedProperty), val, acc1)
        ELSE IF type = "array"
             THEN forEachElement(scopedProperty, val, 1, acc1)
             ELSE acc1

\* const schema = { type: 'object', properties: {} }
emptySchema == [type |-> Single("object"), properties |-> NoProps]

RECURSIVE foldDocuments(_, _, _)
\* for (const document of result) { this.setSchemaForDocument(null, document, schema) }
foldDocuments(docs, i, acc) ==
    IF acc.threw \/ i > Len(docs) THEN acc
    ELSE foldDocuments(docs, i + 1, setSchemaForDocument(NullParent, docs[i], acc))

\* JSON.stringify(schema): every value of the schema is a string, a list of
\* strings or a string-keyed map of such, which JSON text carries unchanged;
\* the text is represented by the structure it parses back to.
stringify(schema) == schema

\* the completion callback passed to readNext: the folded schema text, or a
\* TypeError thrown before c(...) is reached
resolveCallback(docs, schemaUri) ==
    LET folded == foldDocuments(docs, 1, [schema |-> emptySchema, threw |-> FALSE])
    IN  IF folded.threw
        THEN [threw |-> TRUE, text |-> emptySchema]
        ELSE [threw |-> FALSE,
              text |-> stringify(setLogicalOperatorProperties(
                           setGlobalOperatorProperties(folded.schema), schemaUri))]

-----------------------------------------------------------------------------
(* URIs and collection names, as character sequences *)

\* 'mongo://query/'
QueryPrefix == <<"m", "o", "n", "g", "o", ":", "/", "/", "q", "u", "e", "r", "y", "/">>

\* uri.startsWith(prefix)
startsWithLoose(s, prefix) ==
    Len(s) >= Len(prefix) - 1 /\ SubSeq(s, 1, Len(prefix) - 1) = SubSeq(prefix, 1, Len(prefix) - 1)
startsWith(s, prefix) ==
    Len(s) >= Len(prefix) /\ SubSeq(s, 1, Len(prefix)) = prefix

\* uri.substring(n)
substring(s, n) == SubSeq(s, n + 1, Len(s))

\* queryCollectionSchema(collectionName)
queryCollectionSchema(collectionName) == QueryPrefix \o collectionName

\* queryDocumentUri()
queryDocumentUri ==
    <<"m", "o", "n", "g", "o", ":", "/", "/", "q", "u", "e", "r", "y", ".", "j", "s", "o", "n">>

\* the .then handler of registerSchemas: one descriptor per listed collection
RECURSIVE schemasOfReversed(_)
schemasOfReversed(collections) ==
    IF collections = <<>> THEN <<>>
    ELSE Append(schemasOfReversed(Tail(collections)),
                [uri |-> queryCollectionSchema(Head(collections)),
                 fileMatch |-> <<queryDocumentUri>>])
schemasOf(collections) ==
    [i \in 1..Len(collections) |->
        [uri |-> queryCollectionSchema(collections[i]),
         fileMatch |-> <<queryDocumentUri>>]]

-----------------------------------------------------------------------------
(* The environment: data-source handles, collection listings, cursor contents *)

NoDb == "undefined"
Handles == {"db1", "db2"}

CollectionNames == {<<"u", "s", "e", "r", "s">>, <<"j", "s", "o", "n">>, <<>>}

\* what db.collections() can list
Listings ==
    {<<>>} \cup {<<n>> : n \in CollectionNames}
           \cup {<<p[1], p[2]>> : p \in {q \in CollectionNames \X CollectionNames : q[1] # q[2]}}

\* URIs handed to resolveSchema
UriInputs ==
    {queryCollectionSchema(n) : n \in CollectionNames}
    \cup {queryDocumentUri,
          SubSeq(QueryPrefix, 1, Len(QueryPrefix) - 1),
          <<"x">> \o queryCollectionSchema(<<"u", "s", "e", "r", "s">>),
          <<>>}

Names == {"_id", "", "a"}
Scalars == {Num(1), Str, Null}
SubObjects == {Obj(<<F(n, s)>>) : n \in Names, s \in {Num(1), Str}}
Arrays ==
    {Arr(<<>>), Arr(<<Num(1)>>), Arr(<<Null>>)}
    \cup {Arr(<<Obj(<<F(n, Num(1))>>)>>) : n \in Names}
    \cup {Arr(<<Obj(<<F("a", Num(1))>>), Obj(<<F("a", Str)>>)>>),
          Arr(<<Arr(<<Obj(<<F("_id", Num(1))>>)>>)>>)}
FieldValues == Scalars \cup SubObjects \cup Arrays

\* the documents a collection may hold
Docs ==
    {Obj(<<>>), Obj(<<F("_id", Num(1))>>)}
    \cup {Obj(<<F(n, x)>>) : n \in {"", "a"}, x \in FieldValues}
    \cup {Obj(<<F("_id", Num(1)), F("a", x)>>) : x \in {Num(1), Str}}
    \cup {Obj(<<F("_id", Num(1)), F("a", Obj(<<F("_id", Num(2))>>))>>),
          Obj(<<F("a", Str), F("", Obj(<<F("a", Num(1))>>))>>),
          Obj(<<F("", Obj(<<F("a", Num(1))>>)), F("a", Str)>>)}

\* n distinguishable documents {_id: i, a: i}
Numbered(n) == [i \in 1..n |-> Obj(<<F("_id", Num(i)), F("a", Num(i))>>)]

\* what a cursor opened by find() can yield
CursorContents ==
    {Numbered(n) : n \in 0..(BatchSize + ExtraDocs)} \cup {<<d>> : d \in Docs}

RECURSIVE SeqsUpTo(_, _)
SeqsUpTo(S, n) ==
    IF n = 0 THEN {<<>>}
    ELSE LET shorter == SeqsUpTo(S, n - 1)
         IN  shorter \cup {Append(q, d) : q \in {r \in shorter : Len(r) = n - 1}, d \in S}

\* the samples folded in SpecFold
Samples == SeqsUpTo(Docs, MaxSample)

-----------------------------------------------------------------------------
(* The environment of the mongo commands *)

\* undefined: no node, no persisted id, no connection
NoNode == "undefined"
\* the database nodes of the tree, by fullId
DbNodes == {"A", "B"}
\* the connect command that loadPersistedMongoDB executes runs in slot 0,
\* the user's invocations in slots 1 .. MaxCommands
CommandSlots == 0 .. MaxCommands
UserCommands == 1 .. MaxCommands
ExecuteCommands == {"executeMongoCommand", "executeAllMongoCommands"}

NoCommand == [kind |-> "none", node |-> NoNode, pc |-> "idle", oldNodeId |-> NoNode]
NoTask == [pc |-> "start", state |-> "pending", persistedNodeId |-> NoNode, threw |-> FALSE]
NoExecution == [pc |-> "idle", failedBy |-> "none"]

\* nothing invoked, nothing persisted
MongoCommandsIdle ==
    /\ connectedMongoDB = NoNode
    /\ globalState = NoNode
    /\ languageClient = NoNode
    /\ codeLensProvider = "initializing"
    /\ deleted = {}
    /\ commands = [i \in CommandSlots |-> NoCommand]
    /\ loadPersistedMongoDBTask = NoTask
    /\ executions = [k \in ExecuteCommands |-> NoExecution]

-----------------------------------------------------------------------------
(* State after construction *)

NoCursor == [open |-> FALSE, db |-> NoDb, collection |-> <<>>, docs |-> <<>>, pos |-> 0]
NoSchema == [type |-> Single("none"), properties |-> NoProps]
NoReg == [db |-> NoDb, state |-> "none", listing |-> <<>>, schemas |-> <<>>]
NoStats == [bound |-> FALSE, hasNextCalls |-> 0, nextCalls |-> 0, callbacks |-> 0,
            failed |-> FALSE, unhandled |-> 0,
            outstanding |-> 0,      \* cursor requests issued and not yet answered
            exhausted |-> FALSE]    \* a hasNext() has answered false

Init ==
    /\ db = NoDb
    /\ reg = NoReg
    /\ uri = <<>>
    /\ ret = "none"
    /\ cursor = NoCursor
    /\ pending = "none"
    /\ result = <<>>
    /\ promise = "none"
    /\ value = NoSchema
    /\ stats = NoStats
    /\ MongoCommandsIdle

-----------------------------------------------------------------------------
(* registerSchemas *)

\* registerSchemas(db): binds the handle and starts db.collections()
RegisterSchemasKeepsFirst(h) ==
    /\ db' = IF db = NoDb THEN h ELSE db
    /\ reg' = [db |-> h, state |-> "pending", listing |-> <<>>, schemas |-> <<>>]
    /\ UNCHANGED <<uri, ret, cursor, pending, result, promise, value, stats>>
    /\ UNCHANGED commandVars
RegisterSchemas(h) ==
    /\ db' = h
    /\ reg' = [db |-> h, state |-> "pending", listing |-> <<>>, schemas |-> <<>>]
    /\ UNCHANGED <<uri, ret, cursor, pending, result, promise, value, stats>>
    /\ UNCHANGED commandVars

\* db.collections() resolves: the .then handler builds the descriptors
CollectionsResolve(collections) ==
    /\ reg.state = "pending"
    /\ reg' = [reg EXCEPT !.state = "resolved", !.listing = collections,
                          !.schemas = schemasOf(collections)]
    /\ UNCHANGED <<db, uri, ret, cursor, pending, result, promise, value, stats>>
    /\ UNCHANGED commandVars

\* db.collections() rejects: the promise returned by .then rejects with it
CollectionsReject ==
    /\ reg.state = "pending"
    /\ reg' = [reg EXCEPT !.state = "rejected"]
    /\ UNCHANGED <<db, uri, ret, cursor, pending, result, promise, value, stats>>
    /\ UNCHANGED commandVars

-----------------------------------------------------------------------------
(* resolveSchema, _resolveQueryCollectionSchema and readNext *)

\* result.length === batchSize
BatchFullLate(res) == Len(res) > BatchSize
BatchFull(res) == Len(res) = BatchSize

\* callback(result): runs the completion callback.  `sync` tells whether the
\* call is made inside the promise executor (a throw rejects the promise) or
\* inside a .then handler of a cursor promise (a throw rejects only the
\* promise of that .then, which nobody observes).
invokeCallback(res, schemaUri, st, prom, val, sync) ==
    LET cb == resolveCallback(res, schemaUri)
    IN  [pending |-> "none",
         stats |-> [st EXCEPT !.callbacks = @ + 1,
                              !.unhandled = IF cb.threw /\ ~sync THEN @ + 1 ELSE @],
         promise |-> IF ~cb.threw THEN "resolved" ELSE IF sync THEN "rejected" ELSE prom,
         value |-> IF cb.threw THEN val ELSE cb.text]

\* readNext(result, cursor, batchSize, callback)
readNext(res, schemaUri, st, prom, val, sync) ==
    IF BatchFull(res)
    THEN invokeCallback(res, schemaUri, st, prom, val, sync)
    ELSE [pending |-> "hasNext",
          stats |-> [st EXCEPT !.hasNextCalls = @ + 1, !.outstanding = @ + 1],
          promise |-> prom,
          value |-> val]

\* resolveSchema(u).  One call is followed per behaviour, made at any point of
\* the registration history: calls share nothing but the read of _db at their
\* start, and each has its own cursor, result array and promise.
ResolveSchema(u) ==
    /\ ret = "none"
    /\ uri' = u
    /\ result' = <<>>
    /\ UNCHANGED <<db, reg>>
    /\ UNCHANGED commandVars
    /\ IF ~startsWith(u, QueryPrefix)
       THEN \* falls off the end of the function: undefined
            /\ ret' = "undefined"
            /\ cursor' = NoCursor
            /\ pending' = "none"
            /\ promise' = "none"
            /\ value' = NoSchema
            /\ stats' = [NoStats EXCEPT !.bound = (db # NoDb)]
       ELSE IF db = NoDb
       THEN \* this._db.collection(...) on undefined: TypeError
            /\ ret' = "threw"
            /\ cursor' = NoCursor
            /\ pending' = "none"
            /\ promise' = "none"
            /\ value' = NoSchema
            /\ stats' = NoStats
       ELSE \E docs \in CursorContents :
            LET r == readNext(<<>>, u, [NoStats EXCEPT !.bound = TRUE],
                              "pending", NoSchema, TRUE)
            IN  /\ ret' = "promise"
                /\ cursor' = [open |-> TRUE, db |-> db,
                              collection |-> substring(u, Len(QueryPrefix)),
                              docs |-> docs, pos |-> 0]
                /\ pending' = r.pending
                /\ promise' = r.promise
                /\ value' = r.value
                /\ stats' = r.stats

\* cursor.hasNext() resolves
HasNextResolveNoReturn ==
    /\ pending = "hasNext"
    /\ LET hasNext == cursor.pos < Len(cursor.docs)
           answered == [stats EXCEPT !.outstanding = @ - 1, !.exhausted = ~hasNext]
           r == IF hasNext THEN [promise |-> promise, value |-> value, stats |-> answered]
                ELSE invokeCallback(result, uri, answered, promise, value, FALSE)
       IN  /\ pending' = "next"
           /\ promise' = r.promise
           /\ value' = r.value
           /\ stats' = [r.stats EXCEPT !.nextCalls = @ + 1, !.outstanding = @ + 1]
    /\ UNCHANGED <<db, reg, uri, ret, cursor, result>>
    /\ UNCHANGED commandVars
HasNextResolve ==
    /\ pending = "hasNext"
    /\ LET hasNext == cursor.pos < Len(cursor.docs)
           answered == [stats EXCEPT !.outstanding = @ - 1, !.exhausted = ~hasNext]
       IN  IF ~hasNext
           THEN LET r == invokeCallback(result, uri, answered, promise, value, FALSE)
                IN  /\ pending' = r.pending
                    /\ promise' = r.promise
                    /\ value' = r.value
                    /\ stats' = r.stats
           ELSE \* cursor.next() is issued
                /\ pending' = "next"
                /\ stats' = [answered EXCEPT !.nextCalls = @ + 1, !.outstanding = @ + 1]
                /\ UNCHANGED <<promise, value>>
    /\ UNCHANGED <<db, reg, uri, ret, cursor, result>>
    /\ UNCHANGED commandVars

\* cursor.next() resolves with the next document
NextResolve ==
    /\ pending = "next"
    /\ LET doc == cursor.docs[cursor.pos + 1]
           r == readNext(Append(result, doc), uri,
                         [stats EXCEPT !.outstanding = @ - 1], promise, value, FALSE)
       IN  /\ cursor' = [cursor EXCEPT !.pos = @ + 1]
           /\ result' = Append(result, doc)
           /\ pending' = r.pending
           /\ promise' = r.promise
           /\ value' = r.value
           /\ stats' = r.stats
    /\ UNCHANGED <<db, reg, uri, ret>>
    /\ UNCHANGED commandVars

\* cursor.hasNext() rejects: the .then has no rejection handler
HasNextReject ==
    /\ pending = "hasNext"
    /\ pending' = "none"
    /\ stats' = [stats EXCEPT !.failed = TRUE, !.unhandled = @ + 1, !.outstanding = @ - 1]
    /\ UNCHANGED <<db, reg, uri, ret, cursor, result, promise, value>>
    /\ UNCHANGED commandVars

\* cursor.next() rejects: the .then has no rejection handler
NextReject ==
    /\ pending = "next"
    /\ pending' = "none"
    /\ stats' = [stats EXCEPT !.failed = TRUE, !.unhandled = @ + 1, !.outstanding = @ - 1]
    /\ UNCHANGED <<db, reg, uri, ret, cursor, result, promise, value>>
    /\ UNCHANGED commandVars

Next ==
    \/ \E h \in Handles : RegisterSchemas(h)
    \/ \E collections \in Listings : CollectionsResolve(collections)
    \/ CollectionsReject
    \/ \E u \in UriInputs : ResolveSchema(u)
    \/ HasNextResolve
    \/ NextResolve
    \/ HasNextReject
    \/ NextReject

Spec == Init /\ [][Next]_vars

-----------------------------------------------------------------------------
(* The completion callback on its own: every sample of up to MaxSample      *)
(* documents, handed to the callback that readNext was given.               *)

SampleUri == queryCollectionSchema(<<"u", "s", "e", "r", "s">>)

InitFold ==
    /\ db = "db1"
    /\ reg = NoReg
    /\ uri = SampleUri
    /\ ret = "promise"
    /\ result \in Samples
    /\ cursor = [open |-> TRUE, db |-> "db1", collection |-> substring(SampleUri, Len(QueryPrefix)),
                 docs |-> result, pos |-> Len(result)]
    /\ pending = "callback"
    /\ promise = "pending"
    /\ value = NoSchema
    /\ stats = [NoStats EXCEPT !.bound = TRUE, !.hasNextCalls = Len(result) + 1,
                               !.nextCalls = Len(result),
                               !.exhausted = TRUE]
    /\ MongoCommandsIdle

\* callback(result), lines 43-52
FoldSample ==
    /\ pending = "callback"
    /\ LET r == invokeCallback(result, uri, stats, promise, value, FALSE)
       IN  /\ pending' = r.pending
           /\ promise' = r.promise
           /\ value' = r.value
           /\ stats' = r.stats
    /\ UNCHANGED <<db, reg, uri, ret, cursor, result>>
    /\ UNCHANGED commandVars

NextFold == FoldSample

SpecFold == InitFold /\ [][NextFold]_vars

-----------------------------------------------------------------------------
(* cosmosDB.connectMongoDB and cosmosDB.deleteMongoDB.  A command runs to   *)
(* its next await in one step; what it awaits resolves or rejects in a      *)
(* later step, after any steps of the other commands.                       *)

\* setConnectedNode(node, codeLensProvider), imported from ./setConnectedNode:
\* sets ext.connectedMongoDB and tells the code lens provider
setConnectedNode(node) == [connectedMongoDB |-> node, codeLensProvider |-> node]

\* lines 69-70: oldNodeId is read, languageClient.connect(...) is awaited
connectNode(i, node) ==
    [commands EXCEPT ![i] = [kind |-> "connect", node |-> node, pc |-> "connecting",
                             oldNodeId |-> connectedMongoDB]]

\* line 89: node.deleteTreeItem(context) is awaited
deleteNode(i, node) ==
    [commands EXCEPT ![i] = [kind |-> "delete", node |-> node, pc |-> "deleting",
                             oldNodeId |-> NoNode]]

completed(i, how) == [commands EXCEPT ![i].pc = how, ![i].oldNodeId = NoNode]

\* connectMongoDB invoked, with a node of the tree or with none (picker shown)
ConnectMongoDB(i, node) ==
    /\ commands[i].pc = "idle"
    /\ node \notin deleted
    /\ commands' = IF node = NoNode
                   THEN [commands EXCEPT ![i] = [NoCommand EXCEPT !.kind = "connect",
                                                                  !.pc = "picking"]]
                   ELSE connectNode(i, node)
    /\ UNCHANGED <<connectedMongoDB, globalState, languageClient, codeLensProvider, deleted,
                   loadPersistedMongoDBTask, executions>>
    /\ UNCHANGED schemaVars

\* showTreeItemPicker resolves with a database of the tree
ConnectPicked(i, node) ==
    /\ commands[i].kind = "connect" /\ commands[i].pc = "picking"
    /\ node \notin deleted
    /\ commands' = connectNode(i, node)
    /\ UNCHANGED <<connectedMongoDB, globalState, languageClient, codeLensProvider, deleted,
                   loadPersistedMongoDBTask, executions>>
    /\ UNCHANGED schemaVars

\* languageClient.connect resolves: lines 71-73
LanguageClientConnected(i) ==
    /\ commands[i].pc = "connecting"
    /\ LET node == commands[i].node
           set == setConnectedNode(node)
       IN  /\ languageClient' = node
           /\ globalState' = node
           /\ connectedMongoDB' = set.connectedMongoDB
           /\ codeLensProvider' = set.codeLensProvider
    /\ commands' = [commands EXCEPT ![i].pc = "refreshing"]
    /\ UNCHANGED <<deleted, loadPersistedMongoDBTask, executions>>
    /\ UNCHANGED schemaVars

\* node.refresh resolves: lines 75-77
NodeRefreshed(i) ==
    /\ commands[i].pc = "refreshing"
    /\ commands' = IF commands[i].oldNodeId # NoNode
                   THEN [commands EXCEPT ![i].pc = "findingOld"]
                   ELSE completed(i, "done")
    /\ UNCHANGED <<connectedMongoDB, globalState, languageClient, codeLensProvider, deleted,
                   loadPersistedMongoDBTask, executions>>
    /\ UNCHANGED schemaVars

\* ext.tree.findTreeItem(oldNodeId) resolves: lines 78-79
OldNodeFound(i, found) ==
    /\ commands[i].pc = "findingOld"
    /\ found => commands[i].oldNodeId \notin deleted
    /\ commands' = IF found
                   THEN [commands EXCEPT ![i].pc = "refreshingOld"]
                   ELSE completed(i, "done")
    /\ UNCHANGED <<connectedMongoDB, globalState, languageClient, codeLensProvider, deleted,
                   loadPersistedMongoDBTask, executions>>
    /\ UNCHANGED schemaVars

\* oldNode.refresh resolves
OldNodeRefreshed(i) ==
    /\ commands[i].pc = "refreshingOld"
    /\ commands' = completed(i, "done")
    /\ UNCHANGED <<connectedMongoDB, globalState, languageClient, codeLensProvider, deleted,
                   loadPersistedMongoDBTask, executions>>
    /\ UNCHANGED schemaVars

\* what connectMongoDB awaits (lines 66, 70, 73, 77, 79) rejects: the handler throws
ConnectThrows(i) ==
    /\ commands[i].kind = "connect"
    /\ commands[i].pc \in {"picking", "connecting", "refreshing", "findingOld", "refreshingOld"}
    /\ commands' = completed(i, "failed")
    /\ UNCHANGED <<connectedMongoDB, globalState, languageClient, codeLensProvider, deleted,
                   loadPersistedMongoDBTask, executions>>
    /\ UNCHANGED schemaVars

\* deleteMongoDB invoked, with a node of the tree or with none (picker shown)
DeleteMongoDB(i, node) ==
    /\ commands[i].pc = "idle"
    /\ node \notin deleted
    /\ commands' = IF node = NoNode
                   THEN [commands EXCEPT ![i] = [NoCommand EXCEPT !.kind = "delete",
                                                                  !.pc = "picking"]]
                   ELSE deleteNode(i, node)
    /\ UNCHANGED <<connectedMongoDB, globalState, languageClient, codeLensProvider, deleted,
                   loadPersistedMongoDBTask, executions>>
    /\ UNCHANGED schemaVars

DeletePicked(i, node) ==
    /\ commands[i].kind = "delete" /\ commands[i].pc = "picking"
    /\ node \notin deleted
    /\ commands' = deleteNode(i, node)
    /\ UNCHANGED <<connectedMongoDB, globalState, languageClient, codeLensProvider, deleted,
                   loadPersistedMongoDBTask, executions>>
    /\ UNCHANGED schemaVars

\* node.deleteTreeItem resolves (the database is gone): lines 90-95
TreeItemDeleted(i) ==
    /\ commands[i].pc = "deleting"
    /\ commands[i].node \notin deleted
    /\ deleted' = deleted \cup {commands[i].node}
    /\ IF connectedMongoDB # NoNode /\ connectedMongoDB = commands[i].node
       THEN LET set == setConnectedNode(NoNode)
            IN  /\ connectedMongoDB' = set.connectedMongoDB
                /\ codeLensProvider' = set.codeLensProvider
                /\ globalState' = NoNode
                /\ languageClient' = NoNode
       ELSE UNCHANGED <<connectedMongoDB, codeLensProvider, globalState, languageClient>>
    /\ commands' = completed(i, "done")
    /\ UNCHANGED <<loadPersistedMongoDBTask, executions>>
    /\ UNCHANGED schemaVars

\* what deleteMongoDB awaits (lines 87, 89) rejects: the handler throws, nothing is deleted
DeleteThrows(i) ==
    /\ commands[i].kind = "delete"
    /\ commands[i].pc \in {"picking", "deleting"}
    /\ commands' = completed(i, "failed")
    /\ UNCHANGED <<connectedMongoDB, globalState, languageClient, codeLensProvider, deleted,
                   loadPersistedMongoDBTask, executions>>
    /\ UNCHANGED schemaVars

-----------------------------------------------------------------------------
(* loadPersistedMongoDB, started by registerMongoCommands (line 37), and    *)
(* the commands that await its promise                                      *)

\* callWithTelemetryAndErrorHandling (vscode-azureextensionui) with
\* errorHandling.rethrow unset: an error thrown by the callback is handled
\* and the call returns undefined
callWithTelemetryAndErrorHandling(threw) == "resolved"

\* how the promise of loadPersistedMongoDB settles when its body has thrown or not
loadPersistedMongoDB(threw) == callWithTelemetryAndErrorHandling(threw)

\* finally block, lines 148-153
finally(connected, lens) == IF connected = NoNode THEN "undefined" ELSE lens

\* the body leaves the try block, having thrown or not: the finally block
\* runs and the promise settles
leaveTry(threw) ==
    /\ codeLensProvider' = finally(connectedMongoDB, codeLensProvider)
    /\ loadPersistedMongoDBTask' = [loadPersistedMongoDBTask EXCEPT
                                       !.pc = "settled",
                                       !.state = loadPersistedMongoDB(threw),
                                       !.threw = threw]

\* lines 140-142
LoadPersistedMongoDB ==
    /\ loadPersistedMongoDBTask.pc = "start"
    /\ IF globalState = NoNode
       THEN leaveTry(FALSE)
       ELSE /\ loadPersistedMongoDBTask' = [loadPersistedMongoDBTask EXCEPT
                                               !.pc = "findTreeItem",
                                               !.persistedNodeId = globalState]
            /\ UNCHANGED codeLensProvider
    /\ UNCHANGED <<connectedMongoDB, globalState, languageClient, deleted, commands, executions>>
    /\ UNCHANGED schemaVars

\* ext.tree.findTreeItem(persistedNodeId) resolves: lines 143-144
PersistedNodeFound(found) ==
    /\ loadPersistedMongoDBTask.pc = "findTreeItem"
    /\ found => loadPersistedMongoDBTask.persistedNodeId \notin deleted
    /\ IF found
       THEN /\ loadPersistedMongoDBTask' = [loadPersistedMongoDBTask EXCEPT !.pc = "onReady"]
            /\ UNCHANGED codeLensProvider
       ELSE leaveTry(FALSE)
    /\ UNCHANGED <<connectedMongoDB, globalState, languageClient, deleted, commands, executions>>
    /\ UNCHANGED schemaVars

\* languageClient.client.onReady() resolves: line 145 executes connectMongoDB
ClientReady ==
    /\ loadPersistedMongoDBTask.pc = "onReady"
    /\ loadPersistedMongoDBTask' = [loadPersistedMongoDBTask EXCEPT !.pc = "executeCommand"]
    /\ commands' = connectNode(0, loadPersistedMongoDBTask.persistedNodeId)
    /\ UNCHANGED <<connectedMongoDB, globalState, languageClient, codeLensProvider, deleted,
                   executions>>
    /\ UNCHANGED schemaVars

\* executeCommand settles once the connect command has returned or thrown
ConnectCommandSettled(rejects) ==
    /\ loadPersistedMongoDBTask.pc = "executeCommand"
    /\ commands[0].pc \in {"done", "failed"}
    /\ rejects => commands[0].pc = "failed"
    /\ leaveTry(rejects)
    /\ UNCHANGED <<connectedMongoDB, globalState, languageClient, deleted, commands, executions>>
    /\ UNCHANGED schemaVars

\* findTreeItem or onReady rejects: the body throws
LoadThrows ==
    /\ loadPersistedMongoDBTask.pc \in {"findTreeItem", "onReady"}
    /\ leaveTry(TRUE)
    /\ UNCHANGED <<connectedMongoDB, globalState, languageClient, deleted, commands, executions>>
    /\ UNCHANGED schemaVars

\* executeMongoCommand / executeAllMongoCommands invoked: await loadPersistedMongoDBTask
ExecuteMongoCommand(k) ==
    /\ executions[k].pc = "idle"
    /\ executions' = [executions EXCEPT ![k].pc = "awaitTask"]
    /\ UNCHANGED <<connectedMongoDB, globalState, languageClient, codeLensProvider, deleted,
                   commands, loadPersistedMongoDBTask>>
    /\ UNCHANGED schemaVars

\* the await of the task completes: lines 123, 127
TaskAwaitedUnsettled(k) ==
    /\ executions[k].pc = "awaitTask"
    /\ executions' = [executions EXCEPT ![k].pc = "executing"]
    /\ UNCHANGED <<connectedMongoDB, globalState, languageClient, codeLensProvider, deleted,
                   commands, loadPersistedMongoDBTask>>
    /\ UNCHANGED schemaVars
TaskAwaited(k) ==
    /\ executions[k].pc = "awaitTask"
    /\ loadPersistedMongoDBTask.state # "pending"
    /\ executions' = IF loadPersistedMongoDBTask.state = "rejected"
                     THEN [executions EXCEPT ![k] = [pc |-> "failed", failedBy |-> "task"]]
                     ELSE [executions EXCEPT ![k].pc = "executing"]
    /\ UNCHANGED <<connectedMongoDB, globalState, languageClient, codeLensProvider, deleted,
                   commands, loadPersistedMongoDBTask>>
    /\ UNCHANGED schemaVars

\* executeCommandFromActiveEditor / executeAllCommandsFromActiveEditor settles
ExecutedFromActiveEditor(k, ok) ==
    /\ executions[k].pc = "executing"
    /\ executions' = IF ok
                     THEN [executions EXCEPT ![k].pc = "done"]
                     ELSE [executions EXCEPT ![k] = [pc |-> "failed", failedBy |-> "editor"]]
    /\ UNCHANGED <<connectedMongoDB, globalState, languageClient, codeLensProvider, deleted,
                   commands, loadPersistedMongoDBTask>>
    /\ UNCHANGED schemaVars

\* after registerMongoCommands: the task is started, a database may be
\* persisted from an earlier session
InitCommands ==
    /\ db = NoDb
    /\ reg = NoReg
    /\ uri = <<>>
    /\ ret = "none"
    /\ cursor = NoCursor
    /\ pending = "none"
    /\ result = <<>>
    /\ promise = "none"
    /\ value = NoSchema
    /\ stats = NoStats
    /\ connectedMongoDB = NoNode
    /\ globalState \in DbNodes \cup {NoNode}
    /\ languageClient = NoNode
    /\ codeLensProvider = "initializing"
    /\ deleted = {}
    /\ commands = [i \in CommandSlots |-> NoCommand]
    /\ loadPersistedMongoDBTask = NoTask
    /\ executions = [k \in ExecuteCommands |-> NoExecution]

NextCommands ==
    \/ \E i \in UserCommands, node \in DbNodes \cup {NoNode} : ConnectMongoDB(i, node)
    \/ \E i \in UserCommands, node \in DbNodes : ConnectPicked(i, node)
    \/ \E i \in CommandSlots : LanguageClientConnected(i)
    \/ \E i \in CommandSlots : NodeRefreshed(i)
    \/ \E i \in CommandSlots, found \in BOOLEAN : OldNodeFound(i, found)
    \/ \E i \in CommandSlots : OldNodeRefreshed(i)
    \/ \E i \in CommandSlots : ConnectThrows(i)
    \/ \E i \in UserCommands, node \in DbNodes \cup {NoNode} : DeleteMongoDB(i, node)
    \/ \E i \in UserCommands, node \in DbNodes : DeletePicked(i, node)
    \/ \E i \in UserCommands : TreeItemDeleted(i)
    \/ \E i \in UserCommands : DeleteThrows(i)
    \/ LoadPersistedMongoDB
    \/ \E found \in BOOLEAN : PersistedNodeFound(found)
    \/ ClientReady
    \/ \E rejects \in BOOLEAN : ConnectCommandSettled(rejects)
    \/ LoadThrows
    \/ \E k \in ExecuteCommands : ExecuteMongoCommand(k)
    \/ \E k \in ExecuteCommands : TaskAwaited(k)
    \/ \E k \in ExecuteCommands, ok \in BOOLEAN : ExecutedFromActiveEditor(k, ok)

SpecCommands == InitCommands /\ [][NextCommands]_vars

-----------------------------------------------------------------------------
(* What the documents contain, stated on the documents alone: the fields   *)
(* of a sample in processing order (sample order, key order, array         *)
(* elements left to right), each with its traversal path from the root.    *)
(* An array element that is an object is walked at the array's own path    *)
(* (it adds no segment); an array nested directly in an array is not an    *)
(* object and has no fields of its own.  The root's `_id` is left out.     *)

RECURSIVE fieldVisits(_, _, _)
fieldVisits(x, path, i) ==
    IF i > Len(x.items) THEN <<>>
    ELSE IF x.kind = "object"
         THEN LET here == Append(path, x.items[i].name)
              IN  <<[path |-> here, value |-> x.items[i].value]>>
                  \o fieldVisits(x.items[i].value, here, 1)
                  \o fieldVisits(x, path, i + 1)
         ELSE IF x.kind = "array"
              THEN (IF x.items[i].kind = "object"
                    THEN fieldVisits(x.items[i], path, 1) ELSE <<>>)
                   \o fieldVisits(x, path, i + 1)
              ELSE <<>>

documentVisits(doc) ==
    fieldVisits(Obj(SelectSeq(doc.items, LAMBDA f : f.name # "_id")), <<>>, 1)

RECURSIVE sampleVisits(_)
sampleVisits(docs) ==
    IF docs = <<>> THEN <<>>
    ELSE documentVisits(Head(docs)) \o sampleVisits(Tail(docs))

\* the dotted concatenation of a traversal path
RECURSIVE Dotted(_)
Dotted(path) ==
    IF Len(path) = 1 THEN path[1]
    ELSE Dotted(SubSeq(path, 1, Len(path) - 1)) \o "." \o path[Len(path)]

\* the runtime type of a value: 'array' for arrays, otherwise what typeof gives
RuntimeType(x) ==
    IF x.kind \in {"null", "object"} THEN "object" ELSE x.kind

StaticKeys == {"$text", "$where", "$comment", "$or", "$and", "$nor"}
TypeScopedOps ==
    {"$eq", "$gt", "$gte", "$lt", "$lte", "$ne", "$in", "$nin", "$exists", "$type",
     "$mod", "$regex", "$geoWithin", "$geoIntersects", "$near", "$nearSphere",
     "$bitsAllSet", "$bitsAnySet", "$bitsAllClear", "$bitsAnyClear"}

MongoQuerySlash == <<"m", "o", "n", "g", "o", ":", "/", "/", "q", "u", "e", "r", "y", "/">>
MongoQueryJson ==
    <<"m", "o", "n", "g", "o", ":", "/", "/", "q", "u", "e", "r", "y", ".", "j", "s", "o", "n">>
BeginsWithMongoQuerySlash(u) ==
    /\ Len(u) >= Len(MongoQuerySlash)
    /\ \A i \in 1..Len(MongoQuerySlash) : u[i] = MongoQuerySlash[i]

Min(a, b) == IF a < b THEN a ELSE b

Resolved == promise = "resolved"
FieldKeys == DOMAIN value.properties \ StaticKeys
SampledVisits == sampleVisits(result)
SampledPaths == {Dotted(SampledVisits[i].path) : i \in 1..Len(SampledVisits)}
LastVisitOf(p) ==
    LET n == CHOOSE i \in 1..Len(SampledVisits) :
                 /\ Dotted(SampledVisits[i].path) = p
                 /\ \A j \in (i + 1)..Len(SampledVisits) : Dotted(SampledVisits[j].path) # p
    IN  SampledVisits[n]

-----------------------------------------------------------------------------
(* Claims *)

\* C1: the documents handed to the fold are the first min(n, 10) the cursor
\* yields, in cursor order: next() is called min(n, 10) times, never more than
\* 10, and the completion callback runs exactly once (never twice, and once
\* whenever every cursor call has been answered).
C1_SampleIsFirstTen ==
    /\ stats.callbacks <= 1
    /\ stats.nextCalls <= 10
    /\ Len(result) <= 10
    /\ result = SubSeq(cursor.docs, 1, Len(result))
    /\ (cursor.open /\ pending = "none" /\ ~stats.failed) => stats.callbacks = 1
    /\ stats.callbacks = 1 =>
           /\ result = SubSeq(cursor.docs, 1, Min(Len(cursor.docs), 10))
           /\ stats.nextCalls = Min(Len(cursor.docs), 10)

\* reached: a cursor holding more than 10 documents was sampled to completion
C1_Witness ==
    /\ cursor.open /\ Len(cursor.docs) > 10
    /\ stats.callbacks = 1 /\ Len(result) = 10 /\ promise = "resolved"

\* C2: when hasNext() or next() rejects, the promise resolveSchema returned is
\* rejected.
C2_ReadFailureRejects == stats.failed => promise = "rejected"

\* C3: once every cursor call has been answered (none rejected), the promise
\* resolveSchema returned is resolved, whatever the sampled documents look like.
C3_ResolvesForEveryShape ==
    (cursor.open /\ pending = "none" /\ ~stats.failed) => promise = "resolved"

\* C4: the keys of the resolved schema's root `properties` are the six static
\* keys together with the dotted path of every field of the sampled documents.
C4_RootKeysAreStaticPlusPaths ==
    Resolved => DOMAIN value.properties = StaticKeys \cup SampledPaths

\* C5: the root's `_id` gives no property, and every field named `_id` below
\* the root gives a property at its dotted path.
C5_OnlyRootIdSkipped ==
    Resolved =>
        /\ "_id" \notin DOMAIN value.properties
        /\ \A i \in 1..Len(SampledVisits) :
               LET path == SampledVisits[i].path
               IN  (Len(path) >= 2 /\ path[Len(path)] = "_id")
                       => Dotted(path) \in DOMAIN value.properties

\* C6: the type recorded at a field path is the runtime type of the last value
\* processed for that path.
C6_TypeIsLastProcessed ==
    Resolved =>
        \A p \in SampledPaths \cap DOMAIN value.properties :
            value.properties[p].type.of[1] = RuntimeType(LastVisitOf(p).value)

\* C7: every per-field property schema has as `type` a list of exactly two
\* elements: the runtime type of a sampled value, then "object".
C7_TypeIsPairWithObject ==
    Resolved =>
        \A k \in FieldKeys :
            LET type == value.properties[k].type
            IN  /\ type.list
                /\ Len(type.of) = 2
                /\ type.of[2] = "object"
                /\ \E i \in 1..Len(SampledVisits) :
                       type.of[1] = RuntimeType(SampledVisits[i].value)

\* reached: a schema with a string-typed and an array-typed field
C7_Witness ==
    /\ Resolved
    /\ \E k \in FieldKeys : value.properties[k].type.of = <<"string", "object">>
    /\ \E k \in FieldKeys : value.properties[k].type.of = <<"array", "object">>

\* C8: a field's operators include $all and $size exactly when its type is
\* array; the twenty other type-scoped operators, $not and $elemMatch are
\* there for every type.
C8_ArrayOperatorsIffArray ==
    Resolved =>
        \A k \in FieldKeys :
            LET ops == DOMAIN value.properties[k].properties
                array == value.properties[k].type.of[1] = "array"
            IN  /\ ("$all" \in ops) <=> array
                /\ ("$size" \in ops) <=> array
                /\ TypeScopedOps \cup {"$not", "$elemMatch"} \subseteq ops

\* reached: a schema with an array field carrying $all and $size beside a
\* number field carrying neither
C8_Witness ==
    /\ Resolved
    /\ \E k \in FieldKeys :
           /\ value.properties[k].type.of[1] = "array"
           /\ {"$all", "$size"} \subseteq DOMAIN value.properties[k].properties
    /\ \E k \in FieldKeys :
           /\ value.properties[k].type.of[1] = "number"
           /\ {"$all", "$size"} \cap DOMAIN value.properties[k].properties = {}

\* C9: for a URI that does not begin with mongo://query/ resolveSchema returns
\* undefined and opens no cursor and issues no read; for one that does, with a
\* data source registered, it returns a promise and opens a cursor on the
\* collection named by the rest of the URI.
C9_OwnsOnlyQueryUris ==
    ret # "none" =>
        IF BeginsWithMongoQuerySlash(uri)
        THEN /\ ret # "undefined"
             /\ stats.bound =>
                    /\ ret = "promise"
                    /\ cursor.open
                    /\ MongoQuerySlash \o cursor.collection = uri
        ELSE /\ ret = "undefined"
             /\ ~cursor.open
             /\ promise = "none"
             /\ pending = "none"
             /\ stats.hasNextCalls = 0 /\ stats.nextCalls = 0

\* reached: resolveSchema('mongo://query.json') with a data source registered
C9_Witness ==
    /\ uri = MongoQueryJson /\ ret = "undefined" /\ stats.bound /\ db \in Handles

\* C10: the registration resolves with one descriptor per listed collection,
\* in listing order, each {uri: mongo://query/<name>, fileMatch:
\* [mongo://query.json]}; a failed enumeration rejects it with no descriptor.
C10_OneDescriptorPerCollection ==
    /\ reg.state = "resolved" =>
           /\ Len(reg.schemas) = Len(reg.listing)
           /\ \A i \in 1..Len(reg.listing) :
                  /\ reg.schemas[i].uri = MongoQuerySlash \o reg.listing[i]
                  /\ reg.schemas[i].fileMatch = <<MongoQueryJson>>
    /\ reg.state # "resolved" => reg.schemas = <<>>

\* reached: a listing of two different collections was registered
C10_Witness ==
    /\ reg.state = "resolved" /\ Len(reg.listing) = 2 /\ reg.listing[1] # reg.listing[2]
    /\ Len(reg.schemas) = 2

\* C11: a resolveSchema call opens its cursor on the handle of the most
\* recent registerSchemas call (also while that call's enumeration is still
\* pending), and once open the cursor of a resolution is never exchanged: a
\* later registerSchemas leaves its handle, collection and contents alone.
C11_CursorOnLatestHandle ==
    [][/\ (~cursor.open /\ cursor'.open) =>
              /\ reg.state # "none"
              /\ cursor'.db = reg.db
       /\ cursor.open =>
              /\ cursor'.open
              /\ cursor'.db = cursor.db
              /\ cursor'.collection = cursor.collection
              /\ cursor'.docs = cursor.docs
              /\ cursor'.pos \in {cursor.pos, cursor.pos + 1}]_vars

\* reached: a resolution reading its second document from a cursor of a
\* handle that a re-registration, still enumerating, has replaced
C11_Witness ==
    /\ cursor.open /\ cursor.db # db /\ reg.state = "pending"
    /\ pending = "next" /\ cursor.pos >= 1

\* C12: at most one cursor request is outstanding; next() is issued only in
\* answer to a hasNext() that returned true; after a hasNext() returned false
\* no cursor call is issued; no cursor call is issued with 10 documents
\* accumulated.
C12_CursorCallsSequential ==
    [][LET hasNextIssued == stats'.hasNextCalls - stats.hasNextCalls
           nextIssued == stats'.nextCalls - stats.nextCalls
       IN  /\ stats'.outstanding \in {0, 1}
           /\ (stats'.outstanding = 1) <=> (pending' \in {"hasNext", "next"})
           /\ cursor.open => (hasNextIssued \in {0, 1} /\ nextIssued \in {0, 1}
                              /\ hasNextIssued + nextIssued <= 1)
           /\ nextIssued = 1 =>
                  /\ pending = "hasNext" /\ pending' = "next"
                  /\ cursor.pos < Len(cursor.docs)
                  /\ Len(result) < 10
           /\ (cursor.open /\ hasNextIssued = 1) =>
                  /\ pending = "next" /\ pending' = "hasNext"
                  /\ Len(result') < 10
           /\ stats.exhausted =>
                  /\ hasNextIssued = 0 /\ nextIssued = 0
                  /\ pending' = "none"
           /\ Len(result) = 10 => (hasNextIssued = 0 /\ nextIssued = 0)]_vars

\* reached: the tenth document is in, more are left in the cursor, and no
\* request is outstanding
C12_Witness ==
    /\ cursor.open /\ Len(result) = 10 /\ cursor.pos < Len(cursor.docs)
    /\ pending = "none" /\ stats.outstanding = 0
    /\ stats.hasNextCalls = 10 /\ stats.nextCalls = 10

AllCommandsCompleted ==
    /\ loadPersistedMongoDBTask.pc = "settled"
    /\ \A i \in CommandSlots : commands[i].pc \in {"idle", "done", "failed"}

\* C14: under any interleaving of connectMongoDB and deleteMongoDB commands,
\* once all commands have completed ext.connectedMongoDB is not a database
\* whose deletion has succeeded.
C14_DeletedNeverConnected ==
    AllCommandsCompleted => connectedMongoDB \notin deleted

=============================================================================
